---- MODULE Spec2Model ----
(***************************************************************************)
(* The AI news digest.                                                     *)
(*   ArticleCache  (src/optimized_ai_news.py:66-105)  summary cache        *)
(*   StateTracker  (src/optimized_ai_news.py:108-146) sent-article tracker *)
(*   ReportManager, generate_report, run_report_generation (src/app.py)    *)
(*   EnhancedSummarizer (src/enhanced_summarization.py)                    *)
(*   run_pipeline_optimized and run_enhanced_pipeline                      *)
(*                                                                         *)
(* Time is counted in whole days on the wall clock (datetime.now()); the   *)
(* instants of the model are chosen on both sides of the two age cutoffs.  *)
(* A ledger is a function from its keys to its entries; a ledger file is   *)
(* either missing, unparsable, or the JSON dump of a ledger.  Each part    *)
(* has a specification of its own, in which the other parts stand idle.    *)
(***************************************************************************)
EXTENDS Integers, Sequences, FiniteSets, TLC

VARIABLES
    now,         \* datetime.now(), in days
    cacheFile,   \* article_cache.json on disk
    cache,       \* ArticleCache.cache, the in-memory ledger
    stateFile,   \* sent_articles.json on disk
    sent_urls,   \* StateTracker.sent_urls, the in-memory ledger
    op,          \* the last call made: its name, arguments and circumstances
    ret,         \* what the last call returned (Raised when it raised)
    writeLog,    \* the ledgers handed to json.dump during the last call, in order
    setUrls,     \* URLs given to set_summary since this ArticleCache was built
    loadedKeys,  \* keys the cache file held when this ArticleCache was built
    marked,      \* URLs given to mark_articles_sent since this StateTracker was built
    pruned,      \* URLs whose record was past retention when this StateTracker was built
    FIREWORKS_API_KEY, \* os.getenv("FIREWORKS_API_KEY"): TRUE when it is set
    status,      \* ReportManager._status, the fields of ReportStatus
    lock,        \* ReportManager._lock: "free" or the thread holding it
    request,     \* the POST /generate requests: where each handler stands
    worker,      \* the run_report_generation threads: where each one stands
    sys_stdout,  \* sys.stdout: "terminal" or the worker whose ProgressCapture it is
    reader,      \* the GET /status handler inside get_status
    call,        \* one _rate_limited_api_call of an EnhancedSummarizer
    analysis,    \* one batch_analyze_articles of an EnhancedSummarizer
    run,         \* one pipeline run: run_pipeline_optimized or run_enhanced_pipeline
    instances    \* the StateTracker of each of two pipeline runs that share the file

vars == <<now, cacheFile, cache, stateFile, sent_urls, op, ret, writeLog,
          setUrls, loadedKeys, marked, pruned,
          FIREWORKS_API_KEY, status, lock, request, worker, sys_stdout, reader,
          call, analysis, run, instances>>

cacheVars   == <<cacheFile, cache, setUrls, loadedKeys>>
trackerVars == <<stateFile, sent_urls, marked, pruned>>
ledgerVars  == <<now, cacheVars, trackerVars, op, ret, writeLog>>
reportVars  == <<status, lock, request, worker, sys_stdout, reader>>
programVars == <<FIREWORKS_API_KEY, reportVars, call, analysis, run, instances>>

----------------------------------------------------------------------------
(* Program constants *)

\* timedelta(days=7) in get_summary
CACHE_DAYS == 7

\* timedelta(days=30) in load_sent_articles
RETENTION_DAYS == 30

(* Bounds of the model *)

\* longest list of articles or of URLs handed to one call
MaxBatch == 2

CACHE_URLS == {"https://x/a", "https://x/b"}
SUMMARIES  == {"", "S"}

\* Python's None and a raised exception, as values of ret
None   == "None"
Raised == "Raised"

\* The instants at which calls are made, and the dates found in a cache
\* file at start: one exactly at the cutoff, one a day short of it.
CacheInstants  == {0, 1, CACHE_DAYS}
CacheFileDates == {0 - CACHE_DAYS, 1 - CACHE_DAYS}

----------------------------------------------------------------------------
(* Values *)

EmptyLedger == [k \in {} |-> None]

\* datetime.isoformat(): a well-formed timestamp string carrying the instant
isoformat(t) == [wf |-> TRUE, t |-> t]

\* a string datetime.fromisoformat() rejects
BadDate == [wf |-> FALSE, t |-> 0]

\* datetime.fromisoformat(s), for a string it accepts
fromisoformat(s) == s.t

\* Faulty variant: the key is the digest of the host alone, so every URL of a site collides
get_cache_key_of_host(url) == "9dd4e461268c8034f5c8564e155c67a6"

\* hashlib.md5(url.encode()).hexdigest()
get_cache_key(url) ==
    CASE url = "https://x/a" -> "3a1b40c4e355413d36e35a7d1cd47a90"
      [] url = "https://x/b" -> "b007bdfd2b98500ff0cdd50e76a117d7"
      [] url = "https://x/c" -> "3cd52b82ba2d54b0712d98452b2cd9e1"
      [] url = "https://x/d" -> "b790e885a4efae9c06218b63b191e3ce"

(* Files *)

MissingFile    == [state |-> "missing",    data |-> EmptyLedger]
UnparsableFile == [state |-> "unparsable", data |-> EmptyLedger]

\* json.dump(obj, f) into a freshly truncated file
json_dump(obj) == [state |-> "json", data |-> obj]

\* with open(file, 'w') as f: json.dump(data, f)
\*   "ok"           the dump is written
\*   "open_failed"  open() raises, the file is as it was
\*   "write_failed" the file was truncated by open() and the dump raised midway
WriteOutcomes == {"ok", "open_failed", "write_failed"}

write_json(file, data, outcome) ==
    CASE outcome = "ok"           -> json_dump(data)
      [] outcome = "open_failed"  -> file
      [] outcome = "write_failed" -> UnparsableFile

\* the file after the json.dump calls of one handler, the last of which
\* ends as `outcome` (an earlier one that raised would have ended the handler)
RECURSIVE write_all(_, _, _)
write_all(file, writes, outcome) ==
    IF writes = <<>> THEN file
    ELSE IF Len(writes) = 1 THEN write_json(file, Head(writes), outcome)
    ELSE write_all(write_json(file, Head(writes), "ok"), Tail(writes), outcome)

----------------------------------------------------------------------------
(* ArticleCache *)

\* What a loader hands back: the ledger, or an exception leaving the constructor
Returned(ledger) == [raised |-> FALSE, value |-> ledger]
Raising          == [raised |-> TRUE,  value |-> EmptyLedger]

\* Faulty variant: no try/except around json.load, a cut-short file ends the constructor
load_cache_uncaught(file) ==
    IF file.state # "missing"
    THEN IF file.state = "json" THEN Returned(file.data) ELSE Raising
    ELSE Returned(EmptyLedger)

\* if self.cache_file.exists(): try: return json.load(f) / except: return {}
load_cache(file) ==
    IF file.state # "missing"
    THEN IF file.state = "json" THEN Returned(file.data) ELSE Returned(EmptyLedger)
    ELSE Returned(EmptyLedger)

\* Faulty variant: the age test lets an entry of exactly seven days through
get_summary_inclusive(c, url, t) ==
    LET key == get_cache_key(url) IN
    IF key \in DOMAIN c
    THEN LET cached_item == c[key]
             cached_date == fromisoformat(cached_item.cached_date)
         IN  IF t - cached_date <= CACHE_DAYS
             THEN cached_item.summary
             ELSE None
    ELSE None

\* cached_item is an entry set_summary wrote: a non-empty dict that carries
\* cached_date, so the '2020-01-01' default of line 94 is never taken
get_summary(c, url, t) ==
    LET key == get_cache_key(url) IN
    IF key \in DOMAIN c
    THEN LET cached_item == c[key]
             cached_date == fromisoformat(cached_item.cached_date)
         IN  IF t - cached_date < CACHE_DAYS
             THEN cached_item.summary
             ELSE None
    ELSE None

\* Faulty variant: setdefault instead of assignment, an existing entry is kept
set_summary_keeping(c, url, summary, t) ==
    LET key == get_cache_key(url) IN
    [k \in DOMAIN c \cup {key} |->
        IF k \in DOMAIN c
        THEN c[k]
        ELSE [summary |-> summary, cached_date |-> isoformat(t)]]

\* self.cache[key] = {...}: the ledger after the assignment
set_summary(c, url, summary, t) ==
    LET key == get_cache_key(url) IN
    [k \in DOMAIN c \cup {key} |->
        IF k = key
        THEN [summary |-> summary, cached_date |-> isoformat(t)]
        ELSE c[k]]

\* Faulty variant: the save is left to a later flush
set_summary_writes_deferred(c, url, summary, t) == << >>

\* the ledgers set_summary hands to save_cache, in order
set_summary_writes(c, url, summary, t) == << set_summary(c, url, summary, t) >>

\* how the entry of url stood before a call
EntryState(c, url, t) ==
    IF get_cache_key(url) \notin DOMAIN c THEN "none"
    ELSE IF t - fromisoformat(c[get_cache_key(url)].cached_date) < CACHE_DAYS
         THEN "fresh" ELSE "expired"

\* cache = ArticleCache()
NewArticleCache ==
    /\ cache' = load_cache(cacheFile).value
    /\ setUrls' = {}
    /\ loadedKeys' = DOMAIN cache'
    /\ op' = [name |-> "ArticleCache", file |-> cacheFile]
    /\ ret' = IF load_cache(cacheFile).raised THEN Raised ELSE None
    /\ writeLog' = <<>>
    /\ UNCHANGED <<now, cacheFile, trackerVars, programVars>>

\* Faulty variant: an expired entry is deleted when it is found
GetSummaryEvicting ==
    \E url \in CACHE_URLS :
        /\ ret' = get_summary(cache, url, now)
        /\ cache' = IF EntryState(cache, url, now) = "expired"
                    THEN [k \in DOMAIN cache \ {get_cache_key(url)} |-> cache[k]]
                    ELSE cache
        /\ op' = [name |-> "get_summary", url |-> url,
                  had |-> EntryState(cache, url, now),
                  after |-> IF op.name = "get_summary"
                            THEN [name |-> op.name, url |-> op.url]
                            ELSE op]
        /\ writeLog' = <<>>
        /\ UNCHANGED <<now, cacheFile, setUrls, loadedKeys, trackerVars, programVars>>

\* cache.get_summary(url)
GetSummary ==
    \E url \in CACHE_URLS :
        /\ ret' = get_summary(cache, url, now)
        /\ op' = [name |-> "get_summary", url |-> url,
                  had |-> EntryState(cache, url, now),
                  after |-> IF op.name = "get_summary"
                            THEN [name |-> op.name, url |-> op.url]
                            ELSE op]
        /\ writeLog' = <<>>
        /\ UNCHANGED <<now, cacheVars, trackerVars, programVars>>

\* cache.set_summary(url, summary)
SetSummary ==
    \E url \in CACHE_URLS, summary \in SUMMARIES, outcome \in WriteOutcomes :
        /\ cache' = set_summary(cache, url, summary, now)
        /\ writeLog' = set_summary_writes(cache, url, summary, now)
        /\ cacheFile' = write_all(cacheFile, writeLog', outcome)
        /\ ret' = IF outcome = "ok" THEN None ELSE Raised
        /\ setUrls' = setUrls \cup {url}
        /\ op' = [name |-> "set_summary", url |-> url, summary |-> summary,
                  had |-> EntryState(cache, url, now)]
        /\ UNCHANGED <<now, loadedKeys, trackerVars, programVars>>

----------------------------------------------------------------------------
(* StateTracker *)

\* the URLs that digests carry (and so get marked), and one that never does
SENT_URLS    == {"https://x/b", "https://x/c"}
TRACKER_URLS == SENT_URLS \cup {"https://x/d"}

\* articles as the feeds deliver them; two of them share a link
ARTICLES ==
    { [link |-> "https://x/b", title |-> "B"],
      [link |-> "https://x/b", title |-> "B again"],
      [link |-> "https://x/d", title |-> "D"] }

SeqUpTo(S, n) == UNION { [1..k -> S] : k \in 0..n }

TrackerInstants  == {0, 1, RETENTION_DAYS}
TrackerFileDates == {0 - RETENTION_DAYS, 1 - RETENTION_DAYS}

\* the URLs of a file whose record is past retention at instant t
PastRetention(file, t) ==
    IF file.state = "json"
    THEN { url \in DOMAIN file.data :
             file.data[url].wf /\ t - file.data[url].t >= RETENTION_DAYS }
    ELSE {}

\* Faulty variant: the file is loaded as it is, nothing is dropped
load_sent_articles_unpruned(file, t) ==
    IF file.state = "json" THEN Returned(file.data) ELSE Returned(EmptyLedger)

\* Faulty variant: no try/except around the load, a cut-short file ends the constructor
load_sent_articles_uncaught(file, t) ==
    IF file.state # "missing"
    THEN IF file.state = "json"
         THEN LET data == file.data
                  cutoff == t - RETENTION_DAYS
              IN  IF \E url \in DOMAIN data : ~data[url].wf
                  THEN Raising
                  ELSE Returned(
                         [url \in {u \in DOMAIN data : fromisoformat(data[u]) > cutoff}
                              |-> data[url]])
         ELSE Raising
    ELSE Returned(EmptyLedger)

\* Faulty variant: the cutoff test keeps a record of exactly thirty days
load_sent_articles_inclusive(file, t) ==
    IF file.state # "missing"
    THEN IF file.state = "json"
         THEN LET data == file.data
                  cutoff == t - RETENTION_DAYS
              IN  IF \E url \in DOMAIN data : ~data[url].wf
                  THEN Returned(EmptyLedger)
                  ELSE Returned(
                         [url \in {u \in DOMAIN data : fromisoformat(data[u]) >= cutoff}
                              |-> data[url]])
         ELSE Returned(EmptyLedger)
    ELSE Returned(EmptyLedger)

\* json.load succeeds, then the comprehension calls fromisoformat on every
\* record; any exception inside the try leaves the empty ledger
load_sent_articles(file, t) ==
    IF file.state # "missing"
    THEN IF file.state = "json"
         THEN LET data == file.data
                  cutoff == t - RETENTION_DAYS
              IN  IF \E url \in DOMAIN data : ~data[url].wf
                  THEN Returned(EmptyLedger)
                  ELSE Returned(
                         [url \in {u \in DOMAIN data : fromisoformat(data[u]) > cutoff}
                              |-> data[url]])
         ELSE Returned(EmptyLedger)
    ELSE Returned(EmptyLedger)

is_article_sent(sent, url) == url \in DOMAIN sent

\* Faulty variant: only the first URL of the batch is stamped
mark_articles_sent_first_only(sent, urls, current_time) ==
    IF urls = <<>> THEN sent
    ELSE [u \in DOMAIN sent \cup {Head(urls)} |->
             IF u = Head(urls) THEN current_time ELSE sent[u]]

\* for url in urls: self.sent_urls[url] = current_time
RECURSIVE mark_articles_sent(_, _, _)
mark_articles_sent(sent, urls, current_time) ==
    IF urls = <<>> THEN sent
    ELSE mark_articles_sent(
             [u \in DOMAIN sent \cup {Head(urls)} |->
                 IF u = Head(urls) THEN current_time ELSE sent[u]],
             Tail(urls), current_time)

\* Faulty variant: save_state inside the loop, one write per URL
RECURSIVE mark_articles_sent_writes_per_url(_, _, _)
mark_articles_sent_writes_per_url(sent, urls, current_time) ==
    IF urls = <<>> THEN <<>>
    ELSE LET stamped == [u \in DOMAIN sent \cup {Head(urls)} |->
                           IF u = Head(urls) THEN current_time ELSE sent[u]]
         IN  <<stamped>> \o mark_articles_sent_writes_per_url(stamped, Tail(urls), current_time)

\* the ledgers mark_articles_sent hands to save_state, in order
mark_articles_sent_writes(sent, urls, current_time) ==
    << mark_articles_sent(sent, urls, current_time) >>

\* Faulty variant: a link is let through once only
RECURSIVE filter_new_articles_unique(_, _, _)
filter_new_articles_unique(sent, articles, seen) ==
    IF articles = <<>> THEN <<>>
    ELSE LET article == Head(articles) IN
         IF article.link \in DOMAIN sent \/ article.link \in seen
         THEN filter_new_articles_unique(sent, Tail(articles), seen)
         ELSE <<article>> \o
              filter_new_articles_unique(sent, Tail(articles), seen \cup {article.link})

filter_new_articles_deduplicating(sent, articles) ==
    filter_new_articles_unique(sent, articles, {})

\* [article for article in articles if not self.is_article_sent(article['link'])]
RECURSIVE filter_new_articles(_, _)
filter_new_articles(sent, articles) ==
    IF articles = <<>> THEN <<>>
    ELSE LET article == Head(articles)
             rest == filter_new_articles(sent, Tail(articles))
         IN  IF ~is_article_sent(sent, article.link)
             THEN <<article>> \o rest
             ELSE rest

\* state_tracker = StateTracker()
NewStateTracker ==
    /\ sent_urls' = load_sent_articles(stateFile, now).value
    /\ marked' = {}
    /\ pruned' = PastRetention(stateFile, now)
    /\ op' = [name |-> "StateTracker", file |-> stateFile]
    /\ ret' = IF load_sent_articles(stateFile, now).raised THEN Raised ELSE None
    /\ writeLog' = <<>>
    /\ UNCHANGED <<now, stateFile, cacheVars, programVars>>

\* state_tracker.is_article_sent(url)
IsArticleSent ==
    \E url \in TRACKER_URLS :
        /\ ret' = is_article_sent(sent_urls, url)
        /\ op' = [name |-> "is_article_sent", url |-> url]
        /\ writeLog' = <<>>
        /\ UNCHANGED <<now, trackerVars, cacheVars, programVars>>

\* state_tracker.filter_new_articles(articles)
FilterNewArticles ==
    \E articles \in SeqUpTo(ARTICLES, MaxBatch) :
        /\ ret' = filter_new_articles(sent_urls, articles)
        /\ op' = [name |-> "filter_new_articles", articles |-> articles]
        /\ writeLog' = <<>>
        /\ UNCHANGED <<now, trackerVars, cacheVars, programVars>>

\* state_tracker.mark_articles_sent(urls)
MarkArticlesSent ==
    \E urls \in SeqUpTo(SENT_URLS, MaxBatch), outcome \in WriteOutcomes :
        /\ sent_urls' = mark_articles_sent(sent_urls, urls, isoformat(now))
        /\ writeLog' = mark_articles_sent_writes(sent_urls, urls, isoformat(now))
        /\ stateFile' = write_all(stateFile, writeLog', outcome)
        /\ ret' = IF outcome = "ok" THEN None ELSE Raised
        /\ marked' = marked \cup {urls[i] : i \in DOMAIN urls}
        /\ op' = [name |-> "mark_articles_sent", urls |-> urls]
        /\ UNCHANGED <<now, pruned, cacheVars, programVars>>

----------------------------------------------------------------------------
(* ReportManager and the report worker (src/app.py) *)

\* what `if x:` takes for false among the values a status field holds
Truthy(x) == x # None /\ x # ""

STARTING  == "Starting report generation..."
COMPLETED == "Report generation completed successfully!"
NO_NEW    == "No new articles found today."
RUNNING_ENHANCED == "Running ENHANCED AI news pipeline..."
FETCHING  == "Fetching articles from selected sources..."

KEY_NOT_SET     == "FIREWORKS_API_KEY not set! Please create a .env file with your API key."
PIPELINE_FAILED == "Enhanced pipeline failed: ..."
PLACEHOLDER_KEY == "your_fireworks_api_key_here"

\* f'Error: {error}'
ErrorProgress(error) ==
    IF error = KEY_NOT_SET
    THEN "Error: FIREWORKS_API_KEY not set! Please create a .env file with your API key."
    ELSE "Error: Enhanced pipeline failed: ..."

\* f"Error in report generation: {e}"
ErrorInReport(e) ==
    IF e = KEY_NOT_SET
    THEN "Error in report generation: FIREWORKS_API_KEY not set! Please create a .env file with your API key."
    ELSE "Error in report generation: Enhanced pipeline failed: ..."

REPORT_PDF == "ai_news_digest.pdf"

\* the values the environment variable can hold
ApiKeys == {None, PLACEHOLDER_KEY, "fw-key"}

Workers == {"w1", "w2"}

\* ReportStatus()
ReportStatus ==
    [running |-> FALSE, progress |-> "", error |-> None, last_report |-> None,
     start_time |-> [set |-> FALSE, t |-> 0], articles_processed |-> 0]

\* the fields get_status copies, in the order it copies them
StatusFields == <<"running", "progress", "error", "last_report", "articles_processed">>

update_progress(st, progress, articles_processed) ==
    [st EXCEPT !.progress = progress,
               !.articles_processed = IF articles_processed > 0
                                      THEN articles_processed ELSE @]

update_articles_processed(st, count) ==
    [st EXCEPT !.articles_processed = count]

\* Faulty variant: the error and the report of the last run are left in place
start_generation_keeping(st, t) ==
    [st EXCEPT !.running = TRUE, !.progress = STARTING,
               !.start_time = [set |-> TRUE, t |-> t],
               !.articles_processed = 0]

start_generation(st, t) ==
    [st EXCEPT !.running = TRUE, !.progress = STARTING, !.error = None,
               !.last_report = None, !.start_time = [set |-> TRUE, t |-> t],
               !.articles_processed = 0]

finish_generation(st, report_filename, error) ==
    IF Truthy(error)
    THEN [st EXCEPT !.running = FALSE, !.error = error,
                    !.progress = ErrorProgress(error)]
    ELSE IF Truthy(report_filename)
    THEN [st EXCEPT !.running = FALSE, !.last_report = report_filename,
                    !.progress = COMPLETED]
    ELSE [st EXCEPT !.running = FALSE, !.progress = NO_NEW]

is_running(st) == st.running

\* A method of ReportManager that changes the status: its whole body runs
\* under `with self._lock`, so it starts only when the lock is free.
Locked(st) ==
    /\ lock = "free"
    /\ status' = st
    /\ reader' = IF reader.pc = "reading"
                 THEN [reader EXCEPT !.seen = @ \cup {st}]
                 ELSE reader
    /\ UNCHANGED lock

\* print(text) in a worker: sys.stdout.write(text); a ProgressCapture passes
\* the text to update_progress, the terminal does not
print(text) ==
    IF sys_stdout = "terminal"
    THEN UNCHANGED <<status, lock, reader>>
    ELSE Locked(update_progress(status, text, 0))

IdleWorker == [pc |-> "idle", e |-> None, old_stdout |-> None, result |-> None]

Goto(w, pc) == worker' = [worker EXCEPT ![w].pc = pc]

reportRest == <<ledgerVars, FIREWORKS_API_KEY, call, analysis, run, instances>>

\* generate_report: if report_manager.is_running(): ... return
GenerateReportCheck(r) ==
    /\ request[r] = "new"
    /\ lock = "free"
    /\ request' = [request EXCEPT ![r] = IF is_running(status)
                                         THEN "rejected" ELSE "checked"]
    /\ UNCHANGED <<status, lock, worker, sys_stdout, reader, reportRest>>

\* generate_report: threading.Thread(target=run_report_generation, ...).start()
GenerateReportStart(r) ==
    /\ request[r] = "checked"
    /\ request' = [request EXCEPT ![r] = "started"]
    /\ Goto(r, "start")
    /\ UNCHANGED <<status, lock, sys_stdout, reader, reportRest>>

\* report_manager.start_generation()
StartGeneration(w) ==
    /\ worker[w].pc = "start"
    /\ Locked(start_generation(status, now))
    /\ Goto(w, "check_key")
    /\ UNCHANGED <<request, sys_stdout, reportRest>>

\* if not fireworks_key or fireworks_key == "your_fireworks_api_key_here": raise
CheckKey(w) ==
    /\ worker[w].pc = "check_key"
    /\ worker' = IF ~Truthy(FIREWORKS_API_KEY) \/ FIREWORKS_API_KEY = PLACEHOLDER_KEY
                 THEN [worker EXCEPT ![w].pc = "except", ![w].e = KEY_NOT_SET]
                 ELSE [worker EXCEPT ![w].pc = "redirect"]
    /\ UNCHANGED <<status, lock, request, sys_stdout, reader, reportRest>>

\* old_stdout = sys.stdout; sys.stdout = progress_capture
RedirectStdout(w) ==
    /\ worker[w].pc = "redirect"
    /\ worker' = [worker EXCEPT ![w].pc = "announce", ![w].old_stdout = sys_stdout]
    /\ sys_stdout' = w
    /\ UNCHANGED <<status, lock, request, reader, reportRest>>

\* print("Running ENHANCED AI news pipeline...")
Announce(w) ==
    /\ worker[w].pc = "announce"
    /\ print(RUNNING_ENHANCED)
    /\ Goto(w, "pipeline")
    /\ UNCHANGED <<request, sys_stdout, reportRest>>

\* inside the pipeline: report_manager.update_progress(...)
PipelineProgress(w) ==
    /\ worker[w].pc = "pipeline"
    /\ Locked(update_progress(status, FETCHING, 0))
    /\ UNCHANGED <<request, worker, sys_stdout, reportRest>>

\* inside the pipeline: report_manager.update_articles_processed(len(...))
PipelineArticlesProcessed(w) ==
    /\ worker[w].pc = "pipeline"
    /\ \E count \in {0, 2} : Locked(update_articles_processed(status, count))
    /\ UNCHANGED <<request, worker, sys_stdout, reportRest>>

\* how the pipeline call ends: a result with a report, None, an Exception,
\* or an exception `except Exception` does not catch (SystemExit)
PipelineOutcomes == {"report", "nothing", "raise", "exit"}

PipelineEnd(w) ==
    /\ worker[w].pc = "pipeline"
    /\ \E outcome \in PipelineOutcomes :
          worker' = CASE outcome = "report" ->
                           [worker EXCEPT ![w].pc = "restore", ![w].result = REPORT_PDF]
                      [] outcome = "nothing" ->
                           [worker EXCEPT ![w].pc = "restore", ![w].result = None]
                      [] outcome = "raise" ->
                           [worker EXCEPT ![w].pc = "except", ![w].e = PIPELINE_FAILED]
                      [] OTHER ->
                           [worker EXCEPT ![w].pc = "finally"]
    /\ UNCHANGED <<status, lock, request, sys_stdout, reader, reportRest>>

\* sys.stdout = old_stdout
RestoreStdout(w) ==
    /\ worker[w].pc = "restore"
    /\ sys_stdout' = worker[w].old_stdout
    /\ Goto(w, "finish")
    /\ UNCHANGED <<status, lock, request, reader, reportRest>>

\* report_manager.finish_generation(report_filename=...) or finish_generation()
FinishGeneration(w) ==
    /\ worker[w].pc = "finish"
    /\ Locked(finish_generation(status, worker[w].result, None))
    /\ Goto(w, "finally")
    /\ UNCHANGED <<request, sys_stdout, reportRest>>

\* except Exception as e: report_manager.finish_generation(error=str(e))
ExceptFinish(w) ==
    /\ worker[w].pc = "except"
    /\ Locked(finish_generation(status, None, worker[w].e))
    /\ Goto(w, "except_print")
    /\ UNCHANGED <<request, sys_stdout, reportRest>>

\* print(f"Error in report generation: {e}"); traceback.print_exc()
ExceptPrint(w) ==
    /\ worker[w].pc = "except_print"
    /\ print(ErrorInReport(worker[w].e))
    /\ Goto(w, "finally")
    /\ UNCHANGED <<request, sys_stdout, reportRest>>

\* Faulty variant: no finally block
FinallyCheckSkipped(w) ==
    /\ worker[w].pc = "finally"
    /\ lock = "free"
    /\ Goto(w, "done")
    /\ UNCHANGED <<status, lock, request, sys_stdout, reader, reportRest>>

\* finally: if report_manager.is_running():
FinallyCheck(w) ==
    /\ worker[w].pc = "finally"
    /\ lock = "free"
    /\ Goto(w, IF is_running(status) THEN "finally_finish" ELSE "done")
    /\ UNCHANGED <<status, lock, request, sys_stdout, reader, reportRest>>

\* finally: report_manager.finish_generation()
FinallyFinish(w) ==
    /\ worker[w].pc = "finally_finish"
    /\ Locked(finish_generation(status, None, None))
    /\ Goto(w, "done")
    /\ UNCHANGED <<request, sys_stdout, reportRest>>

IdleReader == [pc |-> "idle", k |-> 1, snap |-> [f \in {} |-> None], seen |-> {}]

\* Faulty variant: get_status without `with self._lock`
GetStatusAcquireUnlocked ==
    /\ reader.pc # "reading"
    /\ reader' = [pc |-> "reading", k |-> 1, snap |-> [f \in {} |-> None],
                  seen |-> {status}]
    /\ UNCHANGED <<status, lock, request, worker, sys_stdout, reportRest>>

\* get_status: with self._lock
GetStatusAcquire ==
    /\ reader.pc # "reading"
    /\ lock = "free"
    /\ lock' = "get_status"
    /\ reader' = [pc |-> "reading", k |-> 1, snap |-> [f \in {} |-> None],
                  seen |-> {status}]
    /\ UNCHANGED <<status, request, worker, sys_stdout, reportRest>>

\* get_status: the next entry of the dict, read from self._status
GetStatusRead ==
    /\ reader.pc = "reading"
    /\ reader.k <= Len(StatusFields)
    /\ reader' = [reader EXCEPT
                    !.k = @ + 1,
                    !.snap = [f \in DOMAIN reader.snap \cup {StatusFields[reader.k]} |->
                                 IF f = StatusFields[reader.k]
                                 THEN status[f] ELSE reader.snap[f]]]
    /\ UNCHANGED <<status, lock, request, worker, sys_stdout, reportRest>>

\* get_status: return the dict, leaving the with block
GetStatusReturn ==
    /\ reader.pc = "reading"
    /\ reader.k > Len(StatusFields)
    /\ reader' = [reader EXCEPT !.pc = "returned"]
    /\ lock' = "free"
    /\ UNCHANGED <<status, request, worker, sys_stdout, reportRest>>

----------------------------------------------------------------------------
(* EnhancedSummarizer._rate_limited_api_call (src/enhanced_summarization.py) *)

\* seconds between API calls
RATE_LIMIT_DELAY == 2

MAX_RETRIES == 3

\* seconds
RETRY_DELAY == 5

\* How client.chat.completions.create ends: a response with content, a
\* response without choices, an exception whose message has "429" or "rate
\* limit" in it, or any other exception (a network failure, a timeout).
ApiOutcomes == {"content", "no_choices", "rate_limit", "error"}

\* time.time() - self.last_api_call at the top of an attempt, in seconds
SinceLast == {0, 1, RATE_LIMIT_DELAY}

CONTENT == "content of choices[0].message"

BeginCall == [pc |-> "loop", attempt |-> 0, outcomes |-> <<>>, sleeps |-> <<>>,
              result |-> None]

\* if time_since_last < RATE_LIMIT_DELAY: time.sleep(RATE_LIMIT_DELAY - time_since_last)
Paced(c, since) ==
    IF since < RATE_LIMIT_DELAY
    THEN [c EXCEPT !.sleeps = Append(@, [why |-> "pace", attempt |-> c.attempt,
                                         secs |-> RATE_LIMIT_DELAY - since])]
    ELSE c

Sleep(c, why, secs) ==
    [c EXCEPT !.sleeps = Append(@, [why |-> why, attempt |-> c.attempt, secs |-> secs])]

Return(c, value) == [c EXCEPT !.pc = "returned", !.result = value]

\* `continue`, or the end of the loop body: the next attempt, or the
\* `return None` after the loop when range(MAX_RETRIES) is used up
NextAttempt(c) ==
    IF c.attempt + 1 < MAX_RETRIES
    THEN [c EXCEPT !.attempt = @ + 1]
    ELSE Return([c EXCEPT !.attempt = @ + 1], None)

\* Faulty variant: a rate-limit error is retried after the flat RETRY_DELAY
rate_limited_attempt_flat(c, since, outcome) ==
    LET p == [Paced(c, since) EXCEPT !.outcomes = Append(@, outcome)]
    IN  CASE outcome = "content"    -> Return(p, CONTENT)
          [] outcome = "no_choices" -> Return(p, None)
          [] outcome = "rate_limit" -> NextAttempt(Sleep(p, "rate_limit", RETRY_DELAY))
          [] OTHER ->
               IF p.attempt = MAX_RETRIES - 1
               THEN Return(p, None)
               ELSE NextAttempt(Sleep(p, "error", RETRY_DELAY))

\* one pass of `for attempt in range(MAX_RETRIES)`
rate_limited_attempt(c, since, outcome) ==
    LET p == [Paced(c, since) EXCEPT !.outcomes = Append(@, outcome)]
    IN  CASE outcome = "content"    -> Return(p, CONTENT)
          [] outcome = "no_choices" -> Return(p, None)
          [] outcome = "rate_limit" ->
               NextAttempt(Sleep(p, "rate_limit", RETRY_DELAY * (2 ^ p.attempt)))
          [] OTHER ->
               IF p.attempt = MAX_RETRIES - 1
               THEN Return(p, None)
               ELSE NextAttempt(Sleep(p, "error", RETRY_DELAY))

retryRest == <<ledgerVars, FIREWORKS_API_KEY, reportVars, analysis, run, instances>>

\* self._rate_limited_api_call(messages) is entered
RateLimitedApiCall ==
    /\ call.pc # "loop"
    /\ call' = BeginCall
    /\ UNCHANGED retryRest

\* one attempt of the call
Attempt ==
    /\ call.pc = "loop"
    /\ \E since \in SinceLast, outcome \in ApiOutcomes :
          call' = rate_limited_attempt(call, since, outcome)
    /\ UNCHANGED retryRest

----------------------------------------------------------------------------
(* EnhancedSummarizer.analyze_article and batch_analyze_articles *)

\* The values "impact_score" can have in the JSON the service answers with
Absent     == [t |-> "absent", v |-> 0]
JNull      == [t |-> "null", v |-> 0]
JInt(n)    == [t |-> "int", v |-> n]
JWord      == [t |-> "str", v |-> 0]
\* a string of digits, "12", and a number with a fraction, v + 0.9
JDigits    == [t |-> "digits", v |-> 12]
JFloat(n)  == [t |-> "float", v |-> n]
JScores    == {Absent, JNull, JWord, JDigits, JFloat(0), JFloat(10)}
              \cup {JInt(n) : n \in {0 - 3, 0, 1, 7, 10, 11}}

\* What _rate_limited_api_call hands back: None, text that holds no JSON
\* object, JSON that parses to an empty object, or a JSON object
ApiResponses ==
    {[kind |-> k, impact_score |-> Absent] : k \in {"none", "text", "empty_json"}}
    \cup {[kind |-> "json", impact_score |-> x] : x \in JScores}

\* int(x): raises on None and on a string that is not a number, reads a
\* string of digits, and drops the fraction of a float
py_int(x) ==
    IF x.t \in {"int", "digits", "float"}
    THEN Returned(x.v) ELSE [raised |-> TRUE, value |-> 0]

Min(a, b) == IF a < b THEN a ELSE b
Max(a, b) == IF a > b THEN a ELSE b

\* _create_fallback_analysis(article); confidence is counted in tenths
create_fallback_analysis(article) ==
    [title |-> article.title, link |-> article.link,
     summary |-> "AI analysis failed - using basic description",
     impact_score |-> 5, confidence |-> 3]

\* analysis_data.get('impact_score', 5)
get_impact_score(data) ==
    IF data.impact_score = Absent THEN JInt(5) ELSE data.impact_score

\* Faulty variant: the response is parsed outside any try block
analyze_article_unguarded(article, response) ==
    IF response.kind = "none"
    THEN Returned(create_fallback_analysis(article))
    ELSE IF response.kind # "json" \/ py_int(get_impact_score(response)).raised
    THEN [raised |-> TRUE, value |-> create_fallback_analysis(article)]
    ELSE Returned([title |-> article.title, link |-> article.link,
                   summary |-> "summary",
                   impact_score |->
                       Min(10, Max(1, py_int(get_impact_score(response)).value)),
                   confidence |-> 7])

\* Faulty variant: the score is taken as the service gave it
analyze_article_unclamped(article, response) ==
    IF response.kind = "none"
    THEN Returned(create_fallback_analysis(article))
    ELSE IF response.kind # "json" \/ py_int(get_impact_score(response)).raised
    THEN Returned(create_fallback_analysis(article))
    ELSE Returned([title |-> article.title, link |-> article.link,
                   summary |-> "summary",
                   impact_score |-> py_int(get_impact_score(response)).value,
                   confidence |-> 7])

\* self.analyze_article(article), response being what the API call returned
analyze_article(article, response) ==
    IF response.kind = "none"
    THEN Returned(create_fallback_analysis(article))
    ELSE IF response.kind # "json" \/ py_int(get_impact_score(response)).raised
    THEN Returned(create_fallback_analysis(article))
    ELSE Returned([title |-> article.title, link |-> article.link,
                   summary |-> "summary",
                   impact_score |->
                       Min(10, Max(1, py_int(get_impact_score(response)).value)),
                   confidence |-> 7])

analysisRest == <<ledgerVars, FIREWORKS_API_KEY, reportVars, call, run, instances>>

\* summarizer.batch_analyze_articles(articles): analyses = []
BatchAnalyzeArticles ==
    /\ analysis.pc # "loop"
    /\ \E articles \in SeqUpTo(ARTICLES, MaxBatch) :
          analysis' = [pc |-> IF articles = <<>> THEN "returned" ELSE "loop",
                       articles |-> articles, responses |-> <<>>, analyses |-> <<>>]
    /\ UNCHANGED analysisRest

\* one pass of `for i, article in enumerate(articles)`; an exception out of
\* analyze_article would leave the loop and the function
AnalyzeNext ==
    /\ analysis.pc = "loop"
    /\ \E response \in ApiResponses :
          LET i == Len(analysis.analyses) + 1
              a == analyze_article(analysis.articles[i], response)
          IN  analysis' =
                IF a.raised
                THEN [analysis EXCEPT !.pc = "raised",
                                      !.responses = Append(@, response)]
                ELSE [analysis EXCEPT
                        !.pc = IF i = Len(analysis.articles) THEN "returned" ELSE "loop",
                        !.responses = Append(@, response),
                        !.analyses = Append(@, a.value)]
    /\ UNCHANGED analysisRest

----------------------------------------------------------------------------
(* The pipelines: run_pipeline_optimized (src/optimized_ai_news.py) and    *)
(* run_enhanced_pipeline (src/app.py)                                      *)

Indices(s) == [i \in 1..Len(s) |-> i]

\* the elements of s whose index is in keep, in the order of s
Pick(s, keep) ==
    LET idx == SelectSeq(Indices(s), LAMBDA i : i \in keep)
    IN  [k \in 1..Len(idx) |-> s[idx[k]]]

\* [article['link'] for article in articles]
Links(s) == [i \in 1..Len(s) |-> s[i].link]

\* [article.title for article in analyzed_articles if hasattr(article, 'title')]
Titles(s) == [i \in 1..Len(s) |-> s[i].title]

KEY_NOT_FOUND == "Enhanced pipeline failed: FIREWORKS_API_KEY not found in environment"
CLIENT_ERROR  == "OpenAIError: The api_key client option must be set"
TYPE_ERROR    == "TypeError: argument of type 'NoneType' is not iterable"
WRITE_ERROR   == "OSError"

\* a network call, as the log of a run keeps it
NetworkCall(what, link) == [what |-> what, link |-> link]

\* the local variables of a run at its first statement
BeginRun(kind) ==
    [kind |-> kind, pc |-> "fetch", articles |-> <<>>, new_articles |-> <<>>,
     with_content |-> <<>>, fresh |-> {}, api_links |-> <<>>,
     articles_to_summarize |-> <<>>, numbered |-> {},
     summaries |-> [none |-> FALSE, idx |-> {}], new_summaries |-> {},
     digest |-> <<>>, network |-> <<>>, marks |-> <<>>,
     result |-> None, message |-> None]

\* `return` with no digest made
ReturnNone(r) == [r EXCEPT !.pc = "done", !.result = None]

\* an exception leaves the run; run_enhanced_pipeline wraps it
Raise(r, message) ==
    [r EXCEPT !.pc = "raised",
              !.message = IF r.kind = "enhanced" /\ message # KEY_NOT_FOUND
                          THEN PIPELINE_FAILED ELSE message]

pipelineRest == <<now, op, ret, writeLog, FIREWORKS_API_KEY, reportVars, call,
                  analysis, instances>>

\* cache = ArticleCache(); state_tracker = StateTracker()
Construct ==
    /\ cache' = load_cache(cacheFile).value
    /\ setUrls' = {}
    /\ loadedKeys' = DOMAIN cache'
    /\ sent_urls' = load_sent_articles(stateFile, now).value
    /\ marked' = {}
    /\ pruned' = PastRetention(stateFile, now)
    /\ UNCHANGED <<cacheFile, stateFile>>

\* run_pipeline_optimized(), up to the first network call
RunPipelineOptimized ==
    /\ run.pc = "idle"
    /\ Construct
    /\ run' = BeginRun("optimized")
    /\ UNCHANGED pipelineRest

\* run_enhanced_pipeline(), up to the first network call:
\* if not fireworks_key: raise Exception("FIREWORKS_API_KEY not found in environment")
RunEnhancedPipeline ==
    /\ run.pc = "idle"
    /\ Construct
    /\ run' = IF ~Truthy(FIREWORKS_API_KEY)
              THEN Raise(BeginRun("enhanced"), KEY_NOT_FOUND)
              ELSE BeginRun("enhanced")
    /\ UNCHANGED pipelineRest

\* articles = fetch_rss_articles(); run_enhanced_pipeline returns on no article
FetchRssArticles ==
    /\ run.pc = "fetch"
    /\ \E articles \in SeqUpTo(ARTICLES, MaxBatch) :
          LET r == [run EXCEPT !.articles = articles,
                               !.network = Append(@, NetworkCall("fetch_rss_articles", ""))]
          IN  run' = IF r.kind = "enhanced" /\ articles = <<>>
                     THEN ReturnNone(r)
                     ELSE [r EXCEPT !.pc = "filter"]
    /\ UNCHANGED <<cacheVars, trackerVars, pipelineRest>>

\* Faulty variant: every fetched article goes on to extraction
FilterForNewSkipped ==
    /\ run.pc = "filter"
    /\ run' = IF run.articles = <<>>
              THEN ReturnNone([run EXCEPT !.new_articles = run.articles])
              ELSE [run EXCEPT !.new_articles = run.articles, !.pc = "extract"]
    /\ UNCHANGED <<cacheVars, trackerVars, pipelineRest>>

\* new_articles = state_tracker.filter_new_articles(articles)
FilterForNew ==
    /\ run.pc = "filter"
    /\ LET new_articles == filter_new_articles(sent_urls, run.articles)
       IN  run' = IF new_articles = <<>>
                  THEN ReturnNone([run EXCEPT !.new_articles = new_articles])
                  ELSE [run EXCEPT !.new_articles = new_articles, !.pc = "extract"]
    /\ UNCHANGED <<cacheVars, trackerVars, pipelineRest>>

\* for article in new_articles: content = smart_content_extraction(article);
\* the articles that yield content go on
ExtractContent ==
    /\ run.pc = "extract"
    /\ \E got \in SUBSET DOMAIN run.new_articles :
          LET r == [run EXCEPT
                      !.with_content = Pick(run.new_articles, got),
                      !.network = @ \o [i \in DOMAIN run.new_articles |->
                                          NetworkCall("smart_content_extraction",
                                                      run.new_articles[i].link)]]
          IN  run' = IF got = {} THEN ReturnNone(r) ELSE [r EXCEPT !.pc = "summarize"]
    /\ UNCHANGED <<cacheVars, trackerVars, pipelineRest>>

\* the numbered lines a service answer holds, at most
MaxMatches == 2

\* the numbers the numbered lines of a service answer can carry
MatchNumbers == 0 .. (MaxBatch + 1)

\* How the chat completion of batch_summarize_articles ends: the client
\* cannot be built without a key, the call raises, the response has no
\* choices, or the response is a text with numbered lines
SummaryOutcomes(key) ==
    IF Truthy(key) THEN {"raise", "no_choices", "numbered"}
    ELSE {"client_raises", "raise"}

\* the indices whose article has a cached summary `if cached_summary:` takes
CachedIndices(c, articles, t) ==
    { i \in DOMAIN articles : Truthy(get_summary(c, articles[i].link, t)) }

\* articles_to_summarize[list_idx] for list_idx = number - 1; Python takes
\* index -1 for the last element
ArticleOfNumber(to_summarize, number) ==
    IF number = 0 THEN to_summarize[Len(to_summarize)] ELSE to_summarize[number]

\* the ledger after cache.set_summary(link, summary) for each link in turn
RECURSIVE set_summaries(_, _, _)
set_summaries(c, links, t) ==
    IF links = <<>> THEN c
    ELSE set_summaries(set_summary(c, Head(links), "S", t), Tail(links), t)

\* summaries = batch_summarize_articles(articles_with_content, cache)
BatchSummarizeArticles ==
    /\ run.pc = "summarize"
    /\ run.kind = "optimized"
    /\ LET articles == run.with_content
           cached == CachedIndices(cache, articles, now)
           to_summarize == SelectSeq(Indices(articles), LAMBDA i : i \notin cached)
           r == [run EXCEPT !.fresh = {articles[i].link : i \in cached}]
           sent == [r EXCEPT
                      !.articles_to_summarize = to_summarize,
                      !.api_links = [k \in DOMAIN to_summarize |->
                                        articles[to_summarize[k]].link],
                      !.network = Append(@, NetworkCall("chat.completions", ""))]
       IN  IF to_summarize = <<>>
           THEN /\ run' = [r EXCEPT !.pc = "select", !.summaries.idx = cached]
                /\ UNCHANGED cacheVars
           ELSE \E outcome \in SummaryOutcomes(FIREWORKS_API_KEY) :
                  CASE outcome = "client_raises" ->
                         /\ run' = Raise(r, CLIENT_ERROR)
                         /\ UNCHANGED cacheVars
                    [] outcome = "raise" ->
                         /\ run' = [sent EXCEPT !.pc = "select", !.summaries.idx = cached]
                         /\ UNCHANGED cacheVars
                    [] outcome = "no_choices" ->
                         /\ run' = [sent EXCEPT !.pc = "select", !.summaries.none = TRUE]
                         /\ UNCHANGED cacheVars
                    [] OTHER ->
                         \E matches \in SeqUpTo(MatchNumbers, MaxMatches) :
                           LET valid == SelectSeq(matches,
                                                  LAMBDA n : n - 1 < Len(to_summarize))
                               targets == [k \in DOMAIN valid |->
                                              ArticleOfNumber(to_summarize, valid[k])]
                               links == [k \in DOMAIN targets |-> articles[targets[k]].link]
                               \* new_summaries[original_idx] = summary, per match
                               stored(k) == [number |-> valid[k],
                                             original_idx |-> targets[k]]
                           IN  IF valid = <<>>
                               THEN /\ run' = [sent EXCEPT !.pc = "select",
                                                           !.summaries.idx = cached]
                                    /\ UNCHANGED cacheVars
                               ELSE \E written \in WriteOutcomes :
                                      IF written = "ok"
                                      THEN /\ cache' = set_summaries(cache, links, now)
                                           /\ cacheFile' = json_dump(cache')
                                           /\ setUrls' = setUrls \cup
                                                  {links[k] : k \in DOMAIN links}
                                           /\ run' = [sent EXCEPT
                                                 !.pc = "select",
                                                 !.numbered = {stored(k) : k \in DOMAIN valid},
                                                 !.summaries.idx = cached \cup
                                                     {targets[k] : k \in DOMAIN targets},
                                                 !.new_summaries =
                                                     {links[k] : k \in DOMAIN links}]
                                           /\ UNCHANGED loadedKeys
                                      ELSE /\ cache' = set_summary(cache, links[1], "S", now)
                                           /\ cacheFile' = write_json(cacheFile, cache', written)
                                           /\ setUrls' = setUrls \cup {links[1]}
                                           /\ run' = [sent EXCEPT !.pc = "select",
                                                                  !.numbered = {stored(1)},
                                                                  !.summaries.idx = cached]
                                           /\ UNCHANGED loadedKeys
    /\ UNCHANGED <<trackerVars, pipelineRest>>

\* what the service answers for an article of the enhanced pipeline
PipelineResponses ==
    { [kind |-> "none", impact_score |-> Absent],
      [kind |-> "json", impact_score |-> JInt(7)] }

\* analyzed_articles = summarizer.batch_analyze_articles(articles_with_content)
BatchAnalyze ==
    /\ run.pc = "summarize"
    /\ run.kind = "enhanced"
    /\ \E responses \in [DOMAIN run.with_content -> PipelineResponses] :
          LET articles == run.with_content
              analyses == [i \in DOMAIN articles |->
                              analyze_article(articles[i], responses[i]).value]
          IN  run' = [run EXCEPT
                        !.pc = "report",
                        !.fresh = {articles[i].link :
                                     i \in CachedIndices(cache, articles, now)},
                        !.api_links = Links(articles),
                        !.network = @ \o [i \in DOMAIN articles |->
                                            NetworkCall("chat.completions", articles[i].link)],
                        !.summaries.idx = DOMAIN articles,
                        !.new_summaries = {articles[i].link : i \in
                                             {j \in DOMAIN articles : responses[j].kind = "json"}},
                        !.digest = [i \in DOMAIN analyses |->
                                       [link |-> analyses[i].link,
                                        title |-> analyses[i].title]]]
    /\ UNCHANGED <<cacheVars, trackerVars, pipelineRest>>

\* How the chat completion of filter_summaries_with_ai ends, given the key
FilterOutcomes(key) ==
    IF Truthy(key) THEN {"kept"} ELSE {"client_raises", "kept"}

\* final_articles: the articles with `i in summaries`; then
\* filtered_articles = filter_summaries_with_ai(final_articles), which keeps
\* the list as it is or builds a new one from what the service lists
CombineAndFilter ==
    /\ run.pc = "select"
    /\ IF run.summaries.none
       THEN run' = Raise(run, TYPE_ERROR)
       ELSE LET final_articles == Pick(run.with_content, run.summaries.idx)
            IN  IF final_articles = <<>>
                THEN run' = ReturnNone(run)
                ELSE IF Len(final_articles) <= 1
                THEN run' = [run EXCEPT !.pc = "report", !.digest = final_articles]
                ELSE \E outcome \in FilterOutcomes(FIREWORKS_API_KEY) :
                       IF outcome = "client_raises"
                       THEN run' = Raise(run, CLIENT_ERROR)
                       ELSE \E kept \in SUBSET DOMAIN final_articles :
                              LET r == [run EXCEPT
                                          !.digest = Pick(final_articles, kept),
                                          !.network = Append(@,
                                              NetworkCall("chat.completions", ""))]
                              IN  run' = IF kept = {} THEN ReturnNone(r)
                                         ELSE [r EXCEPT !.pc = "report"]
    /\ UNCHANGED <<cacheVars, trackerVars, pipelineRest>>

\* the URLs a run hands to mark_articles_sent once its reports are made
SentUrls(r) == IF r.kind = "optimized" THEN Links(r.digest) ELSE Titles(r.digest)

\* the reports are generated; state_tracker.mark_articles_sent(sent_urls);
\* return the result
ReportAndMark ==
    /\ run.pc = "report"
    /\ \E written \in WriteOutcomes :
          /\ sent_urls' = mark_articles_sent(sent_urls, SentUrls(run), isoformat(now))
          /\ stateFile' = write_json(stateFile, sent_urls', written)
          /\ marked' = marked \cup {SentUrls(run)[i] : i \in DOMAIN SentUrls(run)}
          /\ run' = IF written = "ok"
                    THEN [run EXCEPT !.pc = "done", !.result = REPORT_PDF,
                                     !.marks = Append(@, SentUrls(run))]
                    ELSE Raise([run EXCEPT !.marks = Append(@, SentUrls(run))],
                               WRITE_ERROR)
    /\ UNCHANGED <<pruned, cacheVars, pipelineRest>>

----------------------------------------------------------------------------
(* Two pipeline runs, each with a StateTracker of its own on the one file *)

PipelineRuns == {"run1", "run2"}

\* a run that has not built its StateTracker yet
NoInstance ==
    [pc |-> "idle", sent_urls |-> EmptyLedger, urls |-> {}, at |-> 0, after |-> {}]

instancesRest == <<now, cacheVars, sent_urls, marked, pruned, op, ret, writeLog,
                   FIREWORKS_API_KEY, reportVars, call, analysis, run>>

\* state_tracker = StateTracker() of run r; `after` notes the runs that were
\* over by then
ConstructTracker(r) ==
    /\ instances[r].pc = "idle"
    /\ instances' = [instances EXCEPT ![r] =
          [@ EXCEPT !.pc = "loaded",
                    !.sent_urls = load_sent_articles(stateFile, now).value,
                    !.after = {q \in PipelineRuns : instances[q].pc = "done"}]]
    /\ UNCHANGED <<stateFile, instancesRest>>

\* the run ends without a digest: nothing is marked, nothing is written
ReturnUnmarked(r) ==
    /\ instances[r].pc = "loaded"
    /\ instances' = [instances EXCEPT ![r].pc = "done"]
    /\ UNCHANGED <<stateFile, instancesRest>>

\* state_tracker.mark_articles_sent(sent_urls) of run r, from the ledger
\* the run loaded
MarkSent(r) ==
    /\ instances[r].pc = "loaded"
    /\ \E urls \in SeqUpTo(SENT_URLS, MaxBatch) \ {<<>>}, written \in WriteOutcomes :
          LET sent == mark_articles_sent(instances[r].sent_urls, urls, isoformat(now))
          IN  /\ stateFile' = write_json(stateFile, sent, written)
              /\ instances' = [instances EXCEPT ![r] =
                    [@ EXCEPT !.pc = IF written = "ok" THEN "done" ELSE "raised",
                              !.sent_urls = sent,
                              !.urls = {urls[i] : i \in DOMAIN urls},
                              !.at = now]]
    /\ UNCHANGED instancesRest

----------------------------------------------------------------------------
(* The clock *)

Tick(instants) ==
    \E t \in instants :
        /\ t > now
        /\ now' = t
        /\ op' = [name |-> "tick"]
        /\ ret' = None
        /\ writeLog' = <<>>
        /\ UNCHANGED <<cacheVars, trackerVars, programVars>>

TickCache == Tick(CacheInstants)

TickTracker == Tick(TrackerInstants)

----------------------------------------------------------------------------
(* Specifications *)

\* no request has come in and nobody asks for the status
ReportIdle ==
    /\ status = ReportStatus
    /\ lock = "free"
    /\ request = [r \in Workers |-> "new"]
    /\ worker = [w \in Workers |-> IdleWorker]
    /\ sys_stdout = "terminal"
    /\ reader = IdleReader

CallIdle == call = [pc |-> "idle"]

AnalysisIdle == analysis = [pc |-> "idle"]

RunIdle ==
    /\ run = [pc |-> "idle"]
    /\ instances = [r \in PipelineRuns |-> NoInstance]

\* the parts of the program a specification of the ledgers leaves out
LedgersOnly ==
    /\ FIREWORKS_API_KEY = "fw-key"
    /\ ReportIdle
    /\ CallIdle
    /\ AnalysisIdle
    /\ RunIdle

CacheEntries == [summary : SUMMARIES, cached_date : {isoformat(d) : d \in CacheFileDates}]

\* the cache files a run can find: none, one cut short by a failed write,
\* or the dump of an earlier ledger
CacheFiles ==
    {MissingFile, UnparsableFile} \cup
    { json_dump(l) : l \in UNION { [K -> CacheEntries] :
                         K \in SUBSET {get_cache_key(u) : u \in CACHE_URLS} } }

TrackerIdle ==
    /\ stateFile = MissingFile
    /\ sent_urls = EmptyLedger
    /\ marked = {}
    /\ pruned = {}

InitCache ==
    /\ now = 0
    /\ cacheFile \in CacheFiles
    /\ cache = load_cache(cacheFile).value
    /\ setUrls = {}
    /\ loadedKeys = DOMAIN cache
    /\ op = [name |-> "ArticleCache", file |-> cacheFile]
    /\ ret = IF load_cache(cacheFile).raised THEN Raised ELSE None
    /\ writeLog = <<>>
    /\ TrackerIdle
    /\ LedgersOnly

NextCache ==
    \/ NewArticleCache
    \/ GetSummary
    \/ SetSummary
    \/ TickCache

SpecCache == InitCache /\ [][NextCache]_vars

\* the tracker files a run can find: none, one cut short by a failed write,
\* or the dump of an earlier ledger
TrackerFiles ==
    {MissingFile, UnparsableFile} \cup
    { json_dump(l) : l \in UNION { [K -> {isoformat(d) : d \in TrackerFileDates}] :
                         K \in SUBSET SENT_URLS } }

CacheIdle ==
    /\ cacheFile = MissingFile
    /\ cache = EmptyLedger
    /\ setUrls = {}
    /\ loadedKeys = {}

InitTracker ==
    /\ now = 0
    /\ stateFile \in TrackerFiles
    /\ sent_urls = load_sent_articles(stateFile, now).value
    /\ marked = {}
    /\ pruned = PastRetention(stateFile, now)
    /\ op = [name |-> "StateTracker", file |-> stateFile]
    /\ ret = IF load_sent_articles(stateFile, now).raised THEN Raised ELSE None
    /\ writeLog = <<>>
    /\ CacheIdle
    /\ LedgersOnly

NextTracker ==
    \/ NewStateTracker
    \/ IsArticleSent
    \/ FilterNewArticles
    \/ MarkArticlesSent
    \/ TickTracker

SpecTracker == InitTracker /\ [][NextTracker]_vars

\* the tracker files of TrackerFiles, and those in which a record carries a
\* timestamp that fromisoformat rejects (a file edited by hand or written
\* by another tool)
TrackerFilesAnyRecord ==
    TrackerFiles \cup
    { json_dump(l) :
        l \in UNION { [K -> {isoformat(d) : d \in TrackerFileDates} \cup {BadDate}] :
                         K \in SUBSET SENT_URLS } }

InitTrackerAnyRecord ==
    /\ now = 0
    /\ stateFile \in TrackerFilesAnyRecord
    /\ sent_urls = load_sent_articles(stateFile, now).value
    /\ marked = {}
    /\ pruned = PastRetention(stateFile, now)
    /\ op = [name |-> "StateTracker", file |-> stateFile]
    /\ ret = IF load_sent_articles(stateFile, now).raised THEN Raised ELSE None
    /\ writeLog = <<>>
    /\ CacheIdle
    /\ LedgersOnly

SpecTrackerAnyRecord == InitTrackerAnyRecord /\ [][NextTracker]_vars

\* Either ledger at work while the other one is left alone: the two classes
\* share no field and no file.
InitLedgers == InitCache \/ InitTracker

NextLedgers ==
    \/ TrackerIdle /\ NewArticleCache
    \/ TrackerIdle /\ GetSummary
    \/ TrackerIdle /\ SetSummary
    \/ TrackerIdle /\ TickCache
    \/ CacheIdle /\ NewStateTracker
    \/ CacheIdle /\ IsArticleSent
    \/ CacheIdle /\ FilterNewArticles
    \/ CacheIdle /\ MarkArticlesSent
    \/ CacheIdle /\ TickTracker

SpecLedgers == InitLedgers /\ [][NextLedgers]_vars

\* the ledgers at rest, as the specifications of the other parts have them
LedgersIdle ==
    /\ now = 0
    /\ TrackerIdle
    /\ CacheIdle
    /\ op = [name |-> "idle"]
    /\ ret = None
    /\ writeLog = <<>>

\* The dashboard: POST /generate handlers, the workers they start, and a
\* GET /status handler, all sharing one ReportManager.
InitReport ==
    /\ LedgersIdle
    /\ FIREWORKS_API_KEY \in ApiKeys
    /\ ReportIdle
    /\ CallIdle
    /\ AnalysisIdle
    /\ RunIdle

WorkerStep(w) ==
    \/ StartGeneration(w)
    \/ CheckKey(w)
    \/ RedirectStdout(w)
    \/ Announce(w)
    \/ PipelineProgress(w)
    \/ PipelineArticlesProcessed(w)
    \/ PipelineEnd(w)
    \/ RestoreStdout(w)
    \/ FinishGeneration(w)
    \/ ExceptFinish(w)
    \/ ExceptPrint(w)
    \/ FinallyCheck(w)
    \/ FinallyFinish(w)

NextWorkers ==
    \/ \E r \in Workers : GenerateReportCheck(r)
    \/ \E r \in Workers : GenerateReportStart(r)
    \/ \E w \in Workers : WorkerStep(w)

NextReport ==
    \/ NextWorkers
    \/ GetStatusAcquire
    \/ GetStatusRead
    \/ GetStatusReturn

SpecReport == InitReport /\ [][NextReport]_vars

\* the steps that take a worker forward; the pipeline's progress reports
\* are the only steps of a worker that leave it where it is
Advance(w) ==
    \/ StartGeneration(w)
    \/ CheckKey(w)
    \/ RedirectStdout(w)
    \/ Announce(w)
    \/ PipelineEnd(w)
    \/ RestoreStdout(w)
    \/ FinishGeneration(w)
    \/ ExceptFinish(w)
    \/ ExceptPrint(w)
    \/ FinallyCheck(w)
    \/ FinallyFinish(w)

\* Threads are scheduled and the pipeline call comes back (it returns or
\* raises); get_status is straight-line code, so the lock it holds is
\* released, and a thread waiting for the lock gets it in the end.
SpecReportFair ==
    /\ SpecReport
    /\ WF_vars(GetStatusRead)
    /\ WF_vars(GetStatusReturn)
    /\ \A w \in Workers : SF_vars(Advance(w))

\* One EnhancedSummarizer making API calls, one after the other.
InitRetry ==
    /\ LedgersIdle
    /\ FIREWORKS_API_KEY = "fw-key"
    /\ ReportIdle
    /\ CallIdle
    /\ AnalysisIdle
    /\ RunIdle

NextRetry ==
    \/ RateLimitedApiCall
    \/ Attempt

SpecRetry == InitRetry /\ [][NextRetry]_vars

\* One EnhancedSummarizer analysing batches of articles.
InitAnalyze == InitRetry

NextAnalyze ==
    \/ BatchAnalyzeArticles
    \/ AnalyzeNext

SpecAnalyze == InitAnalyze /\ [][NextAnalyze]_vars

\* the ledger files a pipeline run can find, left by earlier runs
PipelineCacheFiles ==
    { MissingFile,
      json_dump([k \in {get_cache_key("https://x/b")} |->
                    [summary |-> "S", cached_date |-> isoformat(1 - CACHE_DAYS)]]),
      json_dump([k \in {get_cache_key("https://x/b")} |->
                    [summary |-> "S", cached_date |-> isoformat(0 - CACHE_DAYS)]]) }

PipelineStateFiles ==
    { MissingFile,
      json_dump([u \in {"https://x/d"} |-> isoformat(1 - RETENTION_DAYS)]) }

\* One pipeline run of either kind, started by hand or
\* by a scheduler, with the environment variable set or not.
InitPipeline ==
    /\ now = 0
    /\ cacheFile \in PipelineCacheFiles
    /\ stateFile \in PipelineStateFiles
    /\ cache = EmptyLedger
    /\ sent_urls = EmptyLedger
    /\ setUrls = {}
    /\ loadedKeys = {}
    /\ marked = {}
    /\ pruned = {}
    /\ op = [name |-> "idle"]
    /\ ret = None
    /\ writeLog = <<>>
    /\ FIREWORKS_API_KEY \in ApiKeys
    /\ ReportIdle
    /\ CallIdle
    /\ AnalysisIdle
    /\ RunIdle

NextPipeline ==
    \/ RunPipelineOptimized
    \/ RunEnhancedPipeline
    \/ FetchRssArticles
    \/ FilterForNew
    \/ ExtractContent
    \/ BatchSummarizeArticles
    \/ BatchAnalyze
    \/ CombineAndFilter
    \/ ReportAndMark

SpecPipeline == InitPipeline /\ [][NextPipeline]_vars

\* Two pipeline runs started apart or together (two processes, or two
\* workers of the dashboard), days passing in between or not.
InitRuns ==
    /\ now = 0
    /\ stateFile \in PipelineStateFiles
    /\ sent_urls = EmptyLedger
    /\ marked = {}
    /\ pruned = {}
    /\ CacheIdle
    /\ op = [name |-> "idle"]
    /\ ret = None
    /\ writeLog = <<>>
    /\ LedgersOnly

RunStep(r) ==
    \/ ConstructTracker(r)
    \/ ReturnUnmarked(r)
    \/ MarkSent(r)

NextRuns ==
    \/ \E r \in PipelineRuns : RunStep(r)
    \/ TickTracker

SpecRuns == InitRuns /\ [][NextRuns]_vars

----------------------------------------------------------------------------
(* Properties of ArticleCache, checked under SpecCache *)

\* the age of the entry of url in the ledger c at instant t
AgeOf(c, url, t) == t - c[get_cache_key(url)].cached_date.t

HasEntry(c, url) == get_cache_key(url) \in DOMAIN c

\* a get_summary(u) made right after a set_summary(u, s), nothing in between
GetRightAfterSet ==
    /\ op.name = "get_summary"
    /\ op.after.name = "set_summary"
    /\ op.after.url = op.url

\* C1: set_summary(u, s) followed immediately by get_summary(u) returns s,
\* whether u had no entry, a fresh one or an expired one before the set.
C1_RoundTrip == GetRightAfterSet => ret = op.after.summary

\* a round trip over an entry that had expired before the set
C1_Witness ==
    /\ GetRightAfterSet
    /\ op.after.had = "expired"
    /\ op.after.summary = "S"
    /\ ret = "S"

\* C2: get_summary(u) returns the stored summary only while now - cachedAt
\* is strictly below 7 days; for an entry 7 days old or older it returns
\* None, and the entry is still in the ledger.
C2_FreshnessWindow ==
    op.name = "get_summary" =>
        /\ ret # None =>
              /\ HasEntry(cache, op.url)
              /\ AgeOf(cache, op.url, now) < CACHE_DAYS
              /\ ret = cache[get_cache_key(op.url)].summary
        /\ (HasEntry(cache, op.url) /\ AgeOf(cache, op.url, now) >= CACHE_DAYS) =>
              ret = None

\* an entry of exactly seven days, set by this instance, read as absent
C2_Witness ==
    /\ op.name = "get_summary"
    /\ op.url \in setUrls
    /\ HasEntry(cache, op.url)
    /\ AgeOf(cache, op.url, now) = CACHE_DAYS
    /\ ret = None

\* C3: a URL with no entry (not set by this instance, its key not in the
\* loaded file) reads as None, whatever was got or set for other URLs.
C3_NeverInsertedAbsent ==
    /\ \A url \in CACHE_URLS :
          (url \notin setUrls /\ get_cache_key(url) \notin loadedKeys) =>
              get_summary(cache, url, now) = None
    /\ (/\ op.name = "get_summary"
        /\ op.url \notin setUrls
        /\ get_cache_key(op.url) \notin loadedKeys) => ret = None

\* a never-inserted URL read as absent after another URL was set and is fresh
C3_Witness ==
    /\ op.name = "get_summary"
    /\ op.url \notin setUrls
    /\ get_cache_key(op.url) \notin loadedKeys
    /\ \E other \in setUrls : get_summary(cache, other, now) = "S"
    /\ ret = None

\* C5: after every set_summary that returns, the cache file holds exactly
\* the in-memory ledger: one dump of the whole ledger per set.
C5_FileEqualsLedgerAfterSet ==
    (op.name = "set_summary" /\ ret # Raised) =>
        /\ cacheFile.state = "json"
        /\ cacheFile.data = cache
        /\ writeLog = <<cache>>

\* a set that returned on a ledger of two entries, the file following it
C5_Witness ==
    /\ op.name = "set_summary"
    /\ ret = None
    /\ op.had = "fresh"
    /\ Cardinality(DOMAIN cache) = 2
    /\ cacheFile.data = cache

\* C6: an ArticleCache built on a missing or unparsable file has an empty
\* ledger, raises nothing, and every get_summary then returns None.
C6_LoadFailureStartsEmpty ==
    /\ (op.name = "ArticleCache" /\ op.file.state # "json") =>
          /\ ret # Raised
          /\ cache = EmptyLedger
          /\ \A url \in CACHE_URLS : get_summary(cache, url, now) = None
    /\ (/\ op.name = "get_summary"
        /\ op.after.name = "ArticleCache"
        /\ op.after.file.state # "json") => ret = None

\* a get on a cache that was just built on a file cut short by a failed write
C6_Witness ==
    /\ op.name = "get_summary"
    /\ op.after.name = "ArticleCache"
    /\ op.after.file.state = "unparsable"
    /\ now > 0
    /\ ret = None

----------------------------------------------------------------------------
(* Properties of both ledgers, checked under SpecLedgers *)

ReadNames == {"get_summary", "is_article_sent", "filter_new_articles"}

\* C4: get_summary, is_article_sent and filter_new_articles change neither
\* the in-memory ledgers nor the ledger files; an expired cache entry is
\* still in the ledger after get_summary reported it absent.
C4_ReadsAreReadOnly ==
    [][ op'.name \in ReadNames =>
            /\ UNCHANGED <<cache, cacheFile, sent_urls, stateFile>>
            /\ writeLog' = <<>> ]_vars

\* an expired entry, reported absent by the get just made, still in the ledger
C4_Witness ==
    /\ op.name = "get_summary"
    /\ op.had = "expired"
    /\ ret = None
    /\ HasEntry(cache, op.url)
    /\ cacheFile.state = "json"
    /\ HasEntry(cacheFile.data, op.url)

----------------------------------------------------------------------------
(* Properties of StateTracker, checked under SpecTracker *)

NotSent(article) == article.link \notin DOMAIN sent_urls

Range(seq) == { seq[i] : i \in DOMAIN seq }

\* C7: filter_new_articles returns exactly the articles of its input whose
\* link is not marked sent, in their original order.
C7_FilterIsSubsequence ==
    op.name = "filter_new_articles" => ret = SelectSeq(op.articles, NotSent)

\* one marked link and one new link in, exactly the new article out
C7_Witness ==
    /\ op.name = "filter_new_articles"
    /\ Len(op.articles) = 2
    /\ op.articles[1].link \in marked
    /\ op.articles[2].link \notin DOMAIN sent_urls
    /\ ret = << op.articles[2] >>

\* C8: after mark_articles_sent(urls) every u in urls is sent, and
\* filter_new_articles returns no article with a link in urls while it
\* still returns the articles with unmarked links.
C8_MarkedAreFiltered ==
    /\ \A url \in marked : is_article_sent(sent_urls, url)
    /\ (op.name = "is_article_sent" /\ op.url \in marked) => ret = TRUE
    /\ op.name = "filter_new_articles" =>
          /\ \A i \in DOMAIN ret : ret[i].link \notin marked
          /\ \A i \in DOMAIN op.articles :
                op.articles[i].link \notin DOMAIN sent_urls =>
                    op.articles[i] \in Range(ret)

\* markSent([b, c]) then filterNew([b, d]) returns only the article of d
C8_Witness ==
    /\ marked = {"https://x/b", "https://x/c"}
    /\ op.name = "filter_new_articles"
    /\ op.articles = << [link |-> "https://x/b", title |-> "B"],
                        [link |-> "https://x/d", title |-> "D"] >>
    /\ ret = << [link |-> "https://x/d", title |-> "D"] >>

\* C9: mark_articles_sent stamps every URL of the batch with the same
\* current time and writes the tracker file once per call, after all URLs
\* are stamped; when the call returns the file equals the in-memory ledger.
C9_OneWritePerBatch ==
    op.name = "mark_articles_sent" =>
        /\ \A i \in DOMAIN op.urls :
              /\ op.urls[i] \in DOMAIN sent_urls
              /\ sent_urls[op.urls[i]] = isoformat(now)
        /\ Len(writeLog) = 1
        /\ writeLog[1] = sent_urls
        /\ ret # Raised =>
              /\ stateFile.state = "json"
              /\ stateFile.data = sent_urls

\* a batch of two different URLs, marked on a later day, written once
C9_Witness ==
    /\ op.name = "mark_articles_sent"
    /\ Len(op.urls) = 2
    /\ op.urls[1] # op.urls[2]
    /\ now > 0
    /\ ret = None
    /\ Len(writeLog) = 1
    /\ stateFile.data = sent_urls

\* the records of a parsed file younger than the retention window
RecentRecords(data, t) ==
    { url \in DOMAIN data : t - data[url].t < RETENTION_DAYS }

\* C10: right after a StateTracker is built, its ledger holds exactly the
\* file's records with now - sentAt < 30 days; a URL whose record is 30
\* days old or older is not sent, although it was marked before.
C10_PrunedOnLoad ==
    (op.name = "StateTracker" /\ op.file.state = "json") =>
        /\ DOMAIN sent_urls = RecentRecords(op.file.data, now)
        /\ \A url \in DOMAIN sent_urls : sent_urls[url] = op.file.data[url]
        /\ \A url \in DOMAIN op.file.data :
              now - op.file.data[url].t >= RETENTION_DAYS =>
                  ~is_article_sent(sent_urls, url)

\* a file holding a record marked 30 days ago and one marked 29 days ago:
\* the first is pruned, the second kept
C10_Witness ==
    /\ op.name = "StateTracker"
    /\ op.file.state = "json"
    /\ now = RETENTION_DAYS
    /\ \E u1, u2 \in DOMAIN op.file.data :
          /\ op.file.data[u1].t = 0
          /\ op.file.data[u2].t = 1
          /\ ~is_article_sent(sent_urls, u1)
          /\ is_article_sent(sent_urls, u2)

\* C11: a record pruned at load is in no file this StateTracker writes
\* afterwards, unless its URL is marked sent again.
C11_PrunedNotRewritten ==
    \A url \in pruned \ marked :
        /\ url \notin DOMAIN sent_urls
        /\ \A i \in DOMAIN writeLog : url \notin DOMAIN writeLog[i]
        /\ (op.name = "mark_articles_sent" /\ ret # Raised) =>
              url \notin DOMAIN stateFile.data

\* a save that returned, made by a tracker that had pruned a record at load:
\* the file now holds the newly marked URL and no longer the pruned one
C11_Witness ==
    /\ op.name = "mark_articles_sent"
    /\ ret = None
    /\ pruned \ marked # {}
    /\ marked # {}
    /\ DOMAIN stateFile.data = marked

\* C12: a StateTracker built on a missing or unparsable file has an empty
\* sent set and raises nothing; is_article_sent is false for every URL.
C12_TrackerLoadFailureStartsEmpty ==
    (op.name = "StateTracker" /\ op.file.state # "json") =>
        /\ ret # Raised
        /\ sent_urls = EmptyLedger
        /\ \A url \in TRACKER_URLS : ~is_article_sent(sent_urls, url)

\* a tracker rebuilt on a file that a failed write had cut short
C12_Witness ==
    /\ op.name = "StateTracker"
    /\ op.file.state = "unparsable"
    /\ now > 0
    /\ ret = None
    /\ sent_urls = EmptyLedger

\* C30: the load keeps every record with a well-formed timestamp younger
\* than the retention period, whatever the other records of the file are.
C30_YoungRecordsKept ==
    op.name = "StateTracker" =>
        \A url \in DOMAIN op.file.data :
            LET sent_date == op.file.data[url]
            IN  (sent_date.wf /\ now - fromisoformat(sent_date) < RETENTION_DAYS) =>
                    /\ url \in DOMAIN sent_urls
                    /\ sent_urls[url] = sent_date

----------------------------------------------------------------------------
(* Properties of the dashboard, checked under SpecReport *)

AllTerminated == \A w \in Workers : worker[w].pc \in {"idle", "done"}

\* C13: a worker that has set running to true (start_generation) goes on to
\* the end of run_report_generation, whether the pipeline returns a report,
\* returns nothing or raises, and running is set back to false; whenever
\* every worker has terminated, running is false.
C13_RunningIsCleared ==
    /\ \A w \in Workers :
          (worker[w].pc = "check_key") ~> (worker[w].pc = "done" /\ ~status.running)
    /\ [](AllTerminated => ~status.running)

C13_Witness ==
    /\ \A w \in Workers : worker[w].pc = "done"
    /\ ~status.running
    /\ status.progress = NO_NEW
    /\ sys_stdout # "terminal"

\* C14: the dict get_status returns is the status as it stood at one
\* instant of the call, whatever the workers do meanwhile.
C14_ConsistentSnapshot ==
    reader.pc = "returned" =>
        \E st \in reader.seen :
            \A i \in DOMAIN StatusFields :
                reader.snap[StatusFields[i]] = st[StatusFields[i]]

C14_Witness ==
    /\ reader.pc = "returned"
    /\ reader.snap.running
    /\ reader.snap.progress = FETCHING
    /\ reader.snap.articles_processed = 2
    /\ \E w \in Workers : worker[w].pc = "start"
    /\ ~status.running

\* the workers between thread start and the end of run_report_generation
Active == { w \in Workers : worker[w].pc \notin {"idle", "done"} }

\* C22: at most one report-generation worker is active at any time.
C22_AtMostOneWorker == Cardinality(Active) <= 1

\* the worker w has run alone and has terminated
RanAlone(w) ==
    /\ worker[w].pc = "done"
    /\ \A v \in Workers \ {w} : worker[v].pc = "idle"

\* C23: after a worker that failed with an exception of message e has
\* terminated, the status is running = false, error = e and
\* progress = 'Error: ' + e.
C23_ErrorStatus ==
    \A w \in Workers :
        (RanAlone(w) /\ worker[w].e # None) =>
            /\ ~status.running
            /\ status.error = worker[w].e
            /\ status.progress = ErrorProgress(worker[w].e)

\* C27: running = true implies error is None and last_report is None.
C27_RunningShowsNoOldResult ==
    status.running => (status.error = None /\ status.last_report = None)

C27_Witness ==
    /\ status.running
    /\ \E w \in Workers : worker[w].pc = "done" /\ worker[w].e # None
    /\ \E w \in Workers : worker[w].pc = "pipeline"
    /\ status.error = None
    /\ status.last_report = None

\* C28: after a worker that ran alone has terminated, on success and on
\* every failure path, sys.stdout is the stream it was before the run.
C28_StdoutRestored ==
    \A w \in Workers : RanAlone(w) => sys_stdout = "terminal"

----------------------------------------------------------------------------
(* Properties of _rate_limited_api_call, checked under SpecRetry *)

\* the waits made after a failed attempt
RetryWaits == { i \in DOMAIN call.sleeps : call.sleeps[i].why # "pace" }

Failed(outcome) == outcome \in {"rate_limit", "error"}

\* C16, as stated: after a failed attempt k, rate-limited or not, the wait
\* is RETRY_DELAY * 2^k; there are at most MAX_RETRIES attempts, and a call
\* whose attempts all failed returns None.
C16_ExponentialBackoffForAll ==
    /\ call.pc # "idle" =>
          /\ \A i \in RetryWaits :
                call.sleeps[i].secs = RETRY_DELAY * (2 ^ call.sleeps[i].attempt)
          /\ Len(call.outcomes) <= MAX_RETRIES

\* C16: after a failed attempt k the wait is RETRY_DELAY * 2^k when the error
\* was a rate limit, and RETRY_DELAY when it was any other error, and none
\* after the last attempt of that kind; there are at most MAX_RETRIES
\* attempts, a failed attempt short of that is followed by another one, and a
\* call whose attempts all failed returns None.
C16_BackoffByKindOfError ==
    call.pc # "idle" =>
        /\ \A i \in RetryWaits :
              /\ call.sleeps[i].why = "rate_limit" =>
                    call.sleeps[i].secs = RETRY_DELAY * (2 ^ call.sleeps[i].attempt)
              /\ call.sleeps[i].why = "error" =>
                    /\ call.sleeps[i].secs = RETRY_DELAY
                    /\ call.sleeps[i].attempt < MAX_RETRIES - 1
        /\ Len(call.outcomes) <= MAX_RETRIES
        /\ \A k \in DOMAIN call.outcomes :
              k < Len(call.outcomes) => Failed(call.outcomes[k])
        /\ call.pc = "returned" =>
              /\ Len(call.outcomes) >= 1
              /\ Failed(call.outcomes[Len(call.outcomes)]) =>
                    /\ Len(call.outcomes) = MAX_RETRIES
                    /\ call.result = None
              /\ call.outcomes[Len(call.outcomes)] = "content" <=> call.result = CONTENT

C16_Witness ==
    /\ call.pc = "returned"
    /\ call.result = None
    /\ call.outcomes = <<"rate_limit", "error", "rate_limit">>
    /\ \E i \in RetryWaits : call.sleeps[i].secs = RETRY_DELAY * 4

----------------------------------------------------------------------------
(* Properties of batch_analyze_articles, checked under SpecAnalyze *)

\* a response from which analyze_article gets no analysis
AnalysisFails(response) ==
    \/ response.kind # "json"
    \/ response.impact_score \in {JNull, JWord}

IsFallback(a) == a.impact_score = 5 /\ a.confidence = 3

\* C17: batch_analyze_articles never aborts; its result has one analysis
\* per input article, in input order; an article whose analysis fails gets
\* the fallback analysis (impact_score 5, confidence 0.3) and the articles
\* after it are still analyzed.
C17_OneAnalysisPerArticle ==
    analysis.pc # "idle" =>
        /\ analysis.pc # "raised"
        /\ Len(analysis.analyses) = Len(analysis.responses)
        /\ Len(analysis.analyses) <= Len(analysis.articles)
        /\ analysis.pc = "returned" <=>
              Len(analysis.analyses) = Len(analysis.articles)
        /\ \A i \in DOMAIN analysis.analyses :
              /\ analysis.analyses[i].link = analysis.articles[i].link
              /\ analysis.analyses[i].title = analysis.articles[i].title
              /\ AnalysisFails(analysis.responses[i]) =>
                    IsFallback(analysis.analyses[i])

C17_Witness ==
    /\ analysis.pc = "returned"
    /\ Len(analysis.articles) = 2
    /\ analysis.responses[1].kind = "none"
    /\ IsFallback(analysis.analyses[1])
    /\ analysis.responses[2].kind = "json"
    /\ analysis.analyses[2].impact_score = 7
    /\ analysis.analyses[2].confidence = 7

\* the number the service gave as impact_score, when it gave one
Numeric(score) == score.t \in {"int", "digits", "float"}

\* C24: every analysis has an impact_score in 1..10; a value below 1 gives
\* 1, a value above 10 gives 10, a missing value gives 5, and a value int()
\* rejects gives the fallback analysis, whose score is 5.
C24_ImpactScoreInRange ==
    analysis.pc # "idle" =>
    \A i \in DOMAIN analysis.analyses :
        LET a == analysis.analyses[i]
            response == analysis.responses[i]
            score == response.impact_score
        IN  /\ a.impact_score \in 1..10
            /\ (response.kind = "json" /\ Numeric(score)) =>
                  /\ ~IsFallback(a)
                  /\ score.v < 1 => a.impact_score = 1
                  /\ score.v > 10 => a.impact_score = 10
                  /\ score.v \in 1..10 => a.impact_score = score.v
            /\ (response.kind = "json" /\ score = Absent) =>
                  (a.impact_score = 5 /\ ~IsFallback(a))
            /\ (response.kind = "json" /\ score \in {JNull, JWord}) =>
                  IsFallback(a)

C24_Witness ==
    /\ analysis.pc = "returned"
    /\ Len(analysis.analyses) = 2
    /\ analysis.responses[1].impact_score = JInt(0 - 3)
    /\ analysis.analyses[1].impact_score = 1
    /\ analysis.responses[2].impact_score = JDigits
    /\ analysis.analyses[2].impact_score = 10

----------------------------------------------------------------------------
(* Properties of the pipelines, checked under SpecPipeline *)

Finished(r) == r.pc \in {"done", "raised"}

\* C15: with the API key absent a pipeline run makes no network call and
\* ends as a failure of the run whose message names the missing key.
C15_NoKeyNoNetworkCall ==
    (run.pc # "idle" /\ ~Truthy(FIREWORKS_API_KEY)) =>
        /\ run.network = <<>>
        /\ Finished(run) => (run.pc = "raised" /\ run.message = KEY_NOT_FOUND)

\* C18: when a run ends with a digest, mark_articles_sent has been called
\* once, and the link of every article of the digest is in the tracker's
\* ledger.
C18_DigestLinksMarked ==
    (run.pc = "done" /\ run.result # None) =>
        /\ Len(run.marks) = 1
        /\ \A i \in DOMAIN run.digest :
              is_article_sent(sent_urls, run.digest[i].link)

\* C20: once a run has summarized its articles, no article that had a
\* fresh cached summary was sent to the external summarization call, and
\* every link that got a new summary has an entry in the cache.
C20_CacheConsultedAndFilled ==
    run.pc \in {"select", "report", "done"} =>
        /\ \A i \in DOMAIN run.api_links : run.api_links[i] \notin run.fresh
        /\ \A link \in run.new_summaries :
              /\ get_cache_key(link) \in DOMAIN cache
              /\ link \in setUrls

\* the links a run has handed to smart_content_extraction
Extracted(r) ==
    { r.network[i].link : i \in { j \in DOMAIN r.network :
                                     r.network[j].what = "smart_content_extraction" } }

Summarized(r) == r.pc = "select" /\ r.kind = "optimized"

\* C25: with n articles submitted, the summary numbered k goes to the k-th
\* submitted article when 1 <= k <= n, a number outside 1..n is ignored, and
\* no summary goes to an article that had a cached summary.
C25_SummariesByNumber ==
    Summarized(run) =>
        \A stored \in run.numbered :
            LET n == Len(run.articles_to_summarize)
            IN  /\ stored.number \in 1..n
                /\ stored.original_idx = run.articles_to_summarize[stored.number]
                /\ run.with_content[stored.original_idx].link \notin run.fresh

\* C26: batch_summarize_articles returns a mapping, and the mapping holds
\* an entry for every article that had a cached summary, whatever the
\* chat completion did.
C26_AlwaysAMapping ==
    Summarized(run) =>
        /\ ~run.summaries.none
        /\ \A i \in DOMAIN run.with_content :
              run.with_content[i].link \in run.fresh => i \in run.summaries.idx

----------------------------------------------------------------------------
(* Properties of runs sharing the tracker file, checked under SpecRuns *)

\* C29: once every run has completed, the tracker file holds every URL a
\* run marked, unless its record has passed the retention period; runs that
\* overlap included.
C29_NoSentRecordLost ==
    (\A r \in PipelineRuns : instances[r].pc = "done") =>
        \A r \in PipelineRuns : \A url \in instances[r].urls :
            now - instances[r].at < RETENTION_DAYS => url \in DOMAIN stateFile.data

----------------------------------------------------------------------------
(* Failed writes of the ledgers, checked under SpecLedgers *)

\* the call just made was a set_summary whose save did not reach the file
CacheWriteFailed ==
    op.name = "set_summary" /\ cacheFile # json_dump(cache)

\* the call just made was a mark_articles_sent whose save did not reach the file
StateWriteFailed ==
    op.name = "mark_articles_sent" /\ stateFile # json_dump(sent_urls)

\* C19: a set_summary or mark_articles_sent whose write fails returns to
\* its caller without raising, after one write attempt, with the new
\* entries in the in-memory ledger.
C19_FailedWriteIsContained ==
    /\ CacheWriteFailed =>
          /\ ret # Raised
          /\ Len(writeLog) = 1
          /\ get_cache_key(op.url) \in DOMAIN cache
    /\ StateWriteFailed =>
          /\ ret # Raised
          /\ Len(writeLog) = 1
          /\ \A i \in DOMAIN op.urls : op.urls[i] \in DOMAIN sent_urls

====
